---------------------------- MODULE Spec2Model ----------------------------
(***************************************************************************)
(* Markdown rendering + sanitization pipeline of the ESG dashboard         *)
(* (src/src/components/MarkdownRenderer.tsx) and the earlier revision of   *)
(* the same component (src/unnamed/part_004), the localStorage helpers of  *)
(* src/src/lib/mockData.ts and the error boundary of                       *)
(* src/src/components/ErrorBoundary.tsx.                                   *)
(*                                                                         *)
(* A string is a sequence of one-character strings.  Every regular         *)
(* expression of the source is an operator XEnd(s, i): 0 when the          *)
(* expression does not match at position i of s, otherwise the position    *)
(* right after the match.  String.prototype.replace with a /g expression   *)
(* is ReplaceAll.                                                          *)
(***************************************************************************)
EXTENDS Integers, Sequences, FiniteSets, TLC

VARIABLES
  \* the rendering pipeline: the text a caller hands over and what becomes of it
  corpus, content, typed, phase, html, parsed, injected,
  \* one mounted MarkdownRenderer: its props, the useMemo cell, the element
  props, memo, dom, runs, renders,
  \* the storage helpers of lib/mockData.ts: the browser's localStorage,
  \* Date.now(), what the last helper call returned, the item a caller wrote
  \* last if it has not been overwritten or removed since
  localStorage, now, returned, written,
  \* one ErrorBoundary: this.state, this.props, what render() returned, the
  \* error React still has to hand to componentDidCatch, the onError calls
  state, boundaryProps, rendered, pendingCatch, onErrorCalls, caught,
  caughtSinceReset,
  \* one component that calls useStats: whether it is mounted and which
  \* mount this is, the loading state, the timeouts that are set, the time
  statsMounted, instance, loading, timers, clock

pipelineVars == <<corpus, content, typed, phase, html, parsed, injected>>
componentVars == <<props, memo, dom, runs, renders>>
storageVars == <<localStorage, now, returned, written>>
boundaryVars ==
  <<state, boundaryProps, rendered, pendingCatch, onErrorCalls, caught,
    caughtSinceReset>>

statsVars == <<statsMounted, instance, loading, timers, clock>>

vars == <<pipelineVars, componentVars, storageVars, boundaryVars, statsVars>>

\* no component has called useStats
StatsUnused ==
  /\ statsMounted = FALSE
  /\ instance = 0
  /\ loading = TRUE
  /\ timers = <<>>
  /\ clock = 0

----------------------------------------------------------------------------
(* Every part of the program before it is used.  A specification of one    *)
(* part leaves the others as they are here.                                *)

\* JavaScript's undefined and null where a string stands for the value
Undefined == "undefined"
Null == "null"

\* an optional value: absent, or present with value x
None == <<>>
Some(x) == <<x>>

\* no MarkdownRenderer is mounted
ComponentUnmounted ==
  /\ props = [content |-> <<>>, className |-> Undefined]
  /\ memo = [set |-> FALSE, deps |-> <<>>, value |-> <<>>]
  /\ dom = [mounted |-> FALSE, html |-> <<>>, className |-> <<>>]
  /\ runs = 0
  /\ renders = 0

\* keys callers of the storage helpers use; the key isLocalStorageAvailable
\* writes and removes is one a caller can pass as well
UserKeys == {"theme", "user"}
kTestKey == "__storage_test__"

\* a JavaScript value a helper returns: its type, then the value
JSUndefined == <<"undefined">>

\* an empty localStorage that no helper has been called on
StorageUntouched ==
  /\ localStorage = [k \in {} |-> <<>>]
  /\ now = 1
  /\ returned = JSUndefined
  /\ written = None

\* this.state = { hasError: false, error: null, errorInfo: null }
kInitialState == [hasError |-> FALSE, error |-> Null, errorInfo |-> Null]

\* an ErrorBoundary right after its constructor, rendering its children
BoundaryConstructed ==
  /\ state = kInitialState
  /\ rendered = "children"
  /\ pendingCatch = None
  /\ onErrorCalls = <<>>
  /\ caught = 0
  /\ caughtSinceReset = FALSE

BoundaryUnused ==
  /\ BoundaryConstructed
  /\ boundaryProps = [fallback |-> Undefined, onError |-> FALSE]

\* no text has been handed to the pipeline
PipelineUnused ==
  /\ corpus = 1
  /\ content = <<>>
  /\ typed = 0
  /\ phase = "input"
  /\ html = <<>>
  /\ parsed = <<>>
  /\ injected = <<>>

----------------------------------------------------------------------------
(* Characters and strings *)

Chars(str) == [i \in 1..Len(str) |-> SubSeq(str, i, i)]

Range(s) == {s[i] : i \in 1..Len(s)}

UpperLetters == Chars("ABCDEFGHIJKLMNOPQRSTUVWXYZ")
LowerLetters == Chars("abcdefghijklmnopqrstuvwxyz")
Digits == Chars("0123456789")

\* String.prototype.toLowerCase, one character
ToLower(c) ==
  IF \E k \in 1..26 : UpperLetters[k] = c
  THEN LowerLetters[CHOOSE k \in 1..26 : UpperLetters[k] = c]
  ELSE c

toLowerCase(s) == [i \in 1..Len(s) |-> ToLower(s[i])]

\* \w
WordChars == Range(UpperLetters) \cup Range(LowerLetters) \cup Range(Digits) \cup {"_"}

\* \s (the white space the inputs are built from)
SpaceChars == {" ", "\n", "\t"}

\* the line terminators '.' refuses and '^', '$' look for under /m
LineTerminators == {"\n"}

Quotes == {"\"", "'"}

IsWord(s, i) == i >= 1 /\ i <= Len(s) /\ s[i] \in WordChars

\* a literal of the expression at position i, case-sensitively
LitAt(s, i, lit) ==
  /\ i >= 1
  /\ i + Len(lit) - 1 <= Len(s)
  /\ \A k \in 1..Len(lit) : s[i + k - 1] = lit[k]

\* a (lower-case) literal of an /i expression at position i
LitAtCI(s, i, lit) ==
  /\ i >= 1
  /\ i + Len(lit) - 1 <= Len(s)
  /\ \A k \in 1..Len(lit) : ToLower(s[i + k - 1]) = lit[k]

Min(S) == CHOOSE a \in S : \A b \in S : a <= b

\* C* (greedy) from position i: the first position at or after i whose
\* character is not in C, Len(s)+1 when there is none
SkipClass(s, i, C) ==
  Min({j \in i..Len(s) + 1 : j = Len(s) + 1 \/ s[j] \notin C})

\* [^C]* (greedy) from position i
SkipUntil(s, i, C) ==
  Min({j \in i..Len(s) + 1 : j = Len(s) + 1 \/ s[j] \in C})

\* String.prototype.replace(/.../g, ...): the matches are found left to
\* right, each search starting where the previous match ended; Rep(s, k, e)
\* is the replacement of the match s[k..e-1].
ReplaceAll(s, End(_, _), Rep(_, _, _)) ==
  LET n == Len(s)
      starts == {k \in 1..n : End(s, k) > 0}
      go[i \in 1..n + 1] ==
        LET later == {k \in starts : k >= i} IN
        IF later = {} THEN SubSeq(s, i, n)
        ELSE LET k == Min(later)
                 e == End(s, k)
             IN SubSeq(s, i, k - 1) \o Rep(s, k, e) \o go[e]
  IN go[1]

Contains(s, End(_, _)) == \E k \in 1..Len(s) : End(s, k) > 0

StartsWith(s, lit) == LitAt(s, 1, lit)


\* the character at position i, "" beyond either end of the string
CharAt(s, i) == IF i >= 1 /\ i <= Len(s) THEN s[i] ELSE ""

\* a match that is deleted, or kept as it is
Delete(s, k, e) == <<>>
Keep(s, k, e) == SubSeq(s, k, e - 1)

----------------------------------------------------------------------------
(* sanitizeHTML, MarkdownRenderer.tsx:95-126 *)

kScriptOpen == Chars("<script")
kScriptClose == Chars("</script>")

\* /<script\b[^<]*(?:(?!<\/script>)<[^<]*)*<\/script>/gi
\* After "<script" and the word boundary the expression walks from '<' to
\* '<' and stops at the first one that starts "</script>".
scriptEnd(s, i) ==
  IF LitAtCI(s, i, kScriptOpen) /\ ~IsWord(s, i + 7)
  THEN LET closes == {p \in i + 7..Len(s) : LitAtCI(s, p, kScriptClose)}
       IN IF closes = {} THEN 0 ELSE Min(closes) + 9
  ELSE 0

kOn == Chars("on")

\* \son\w+\s*= : the position of the '=' sign, 0 when there is no match
eventNameEq(s, i) ==
  IF CharAt(s, i) \in SpaceChars /\ LitAtCI(s, i + 1, kOn)
  THEN LET w == SkipClass(s, i + 3, WordChars)
           a == SkipClass(s, w, SpaceChars)
       IN IF w > i + 3 /\ CharAt(s, a) = "=" THEN a ELSE 0
  ELSE 0

\* /\son\w+\s*=\s*["'][^"']*["']/gi
eventQuotedEnd(s, i) ==
  LET a == eventNameEq(s, i) IN
  IF a = 0 THEN 0
  ELSE LET b == SkipClass(s, a + 1, SpaceChars)
           c == SkipUntil(s, b + 1, Quotes)
       IN IF CharAt(s, b) \in Quotes /\ c <= Len(s) THEN c + 1 ELSE 0

\* /\son\w+\s*=\s*[^\s>]*/gi
eventBareEnd(s, i) ==
  LET a == eventNameEq(s, i) IN
  IF a = 0 THEN 0
  ELSE SkipUntil(s, SkipClass(s, a + 1, SpaceChars), SpaceChars \cup {">"})

kHref == Chars("href")
kSrc == Chars("src")
kJavascript == Chars("javascript:")
kData == Chars("data:")

\* /attr\s*=\s*["']scheme[^"']*["']/gi
attrSchemeEnd(s, i, attr, scheme) ==
  IF LitAtCI(s, i, attr)
  THEN LET a == SkipClass(s, i + Len(attr), SpaceChars)
           b == SkipClass(s, a + 1, SpaceChars)
           c == SkipUntil(s, b + 1 + Len(scheme), Quotes)
       IN IF /\ CharAt(s, a) = "="
             /\ CharAt(s, b) \in Quotes
             /\ LitAtCI(s, b + 1, scheme)
             /\ c <= Len(s)
          THEN c + 1 ELSE 0
  ELSE 0

\* /href\s*=\s*["']javascript:[^"']*["']/gi
hrefJavascriptEnd(s, i) == attrSchemeEnd(s, i, kHref, kJavascript)
\* /href\s*=\s*["']data:[^"']*["']/gi
hrefDataEnd(s, i) == attrSchemeEnd(s, i, kHref, kData)
\* /src\s*=\s*["']data:[^"']*["']/gi
srcDataEnd(s, i) == attrSchemeEnd(s, i, kSrc, kData)

\* a replacement that also says what was blocked
hrefBlocked(s, k, e) == Chars("href=\"#\" data-blocked=\"javascript\"")

hrefHash(s, k, e) == Chars("href=\"#\"")
srcEmpty(s, k, e) == Chars("src=\"\"")

embedNames == {Chars("iframe"), Chars("object"), Chars("embed")}

\* /<(iframe|object|embed)[^>]*>/gi
embedEnd(s, i) ==
  IF CharAt(s, i) = "<" /\ \E nm \in embedNames : LitAtCI(s, i + 1, nm)
  THEN LET nm == CHOOSE x \in embedNames : LitAtCI(s, i + 1, x)
           c == SkipUntil(s, i + 1 + Len(nm), {">"})
       IN IF c <= Len(s) THEN c + 1 ELSE 0
  ELSE 0

\* const allowedTags = [...]
allowedTags ==
  {Chars("h1"), Chars("h2"), Chars("h3"), Chars("p"), Chars("strong"),
   Chars("em"), Chars("code"), Chars("a"), Chars("ul"), Chars("li"),
   Chars("br"), Chars("span")}

\* where the name of a tagPattern match at i starts
\* the pattern without the optional slash: closing tags are no tags
tagNameStartOpening(s, i) == i + 1

tagNameStart(s, i) == IF CharAt(s, i + 1) = "/" THEN i + 2 ELSE i + 1

\* const tagPattern = /<\/?(\w+)(\s[^>]*)?>/g
tagPatternEnd(s, i) ==
  IF CharAt(s, i) = "<"
  THEN LET j == tagNameStart(s, i)
           w == SkipClass(s, j, WordChars)
           c == SkipUntil(s, w + 1, {">"})
       IN IF w = j THEN 0
          ELSE IF CharAt(s, w) = ">" THEN w + 1
          ELSE IF CharAt(s, w) \in SpaceChars /\ c <= Len(s) THEN c + 1
          ELSE 0
  ELSE 0

\* the first capture group of a tagPattern match at i
tagName(s, i) ==
  LET j == tagNameStart(s, i) IN SubSeq(s, j, SkipClass(s, j, WordChars) - 1)

\* the callback without toLowerCase(): an allowed tag in capitals is deleted
tagCallbackCaseSensitive(s, k, e) ==
  IF tagName(s, k) \in allowedTags THEN Keep(s, k, e) ELSE <<>>

\* (match, tag) => allowedTags.includes(tag.toLowerCase()) ? match : ''
tagCallback(s, k, e) ==
  IF toLowerCase(tagName(s, k)) \in allowedTags THEN Keep(s, k, e) ELSE <<>>

\* the statements of sanitizeHTML, one by one
removeScripts(h) == ReplaceAll(h, scriptEnd, Delete)
removeQuotedHandlers(h) == ReplaceAll(h, eventQuotedEnd, Delete)
removeBareHandlers(h) == ReplaceAll(h, eventBareEnd, Delete)
rewriteHrefJavascript(h) == ReplaceAll(h, hrefJavascriptEnd, hrefHash)
rewriteHrefData(h) == ReplaceAll(h, hrefDataEnd, hrefHash)
rewriteSrcData(h) == ReplaceAll(h, srcDataEnd, srcEmpty)
removeEmbeds(h) == ReplaceAll(h, embedEnd, Delete)
filterTags(h) == ReplaceAll(h, tagPatternEnd, tagCallback)

\* what sanitizeHTML hands to its allow-list step
beforeFilter(h) ==
  removeEmbeds(rewriteSrcData(rewriteHrefData(rewriteHrefJavascript(
    removeBareHandlers(removeQuotedHandlers(removeScripts(h)))))))

sanitizeHTML(h) == filterTags(beforeFilter(h))

----------------------------------------------------------------------------
(* parseMarkdown, MarkdownRenderer.tsx:35-76 (the same statements as        *)
(* part_004:10-48)                                                          *)

kStars == Chars("**")

\* /\*\*(.*?)\*\*/g : the closing "**" is the first one on the same line
boldEnd(s, i) ==
  IF LitAt(s, i, kStars)
  THEN LET nl == SkipUntil(s, i + 2, LineTerminators)
           closes == {j \in i + 2..nl : LitAt(s, j, kStars)}
       IN IF closes = {} THEN 0 ELSE Min(closes) + 2
  ELSE 0

boldRep(s, k, e) ==
  Chars("<strong class=\"font-bold text-foreground\">")
    \o SubSeq(s, k + 2, e - 3) \o Chars("</strong>")

\* /(?<!\*)\*(?!\*)([^*]+)\*(?!\*)/g
italicEnd(s, i) ==
  IF CharAt(s, i) = "*" /\ CharAt(s, i - 1) # "*" /\ CharAt(s, i + 1) # "*"
  THEN LET j == SkipUntil(s, i + 1, {"*"})
       IN IF j > i + 1 /\ j <= Len(s) /\ CharAt(s, j + 1) # "*"
          THEN j + 1 ELSE 0
  ELSE 0

italicRep(s, k, e) ==
  Chars("<em class=\"italic text-muted-foreground\">")
    \o SubSeq(s, k + 1, e - 2) \o Chars("</em>")

\* the backquote character, which a string literal of this language cannot hold
Backquote == "backquote"

\* the expression of the inline code rule: a backquote, [^backquote]+, a backquote
codeEnd(s, i) ==
  IF CharAt(s, i) = Backquote
  THEN LET j == SkipUntil(s, i + 1, {Backquote})
       IN IF j > i + 1 /\ j <= Len(s) THEN j + 1 ELSE 0
  ELSE 0

codeRep(s, k, e) ==
  Chars("<code class=\"px-2 py-1 rounded-md bg-muted text-sm font-mono text-primary\">")
    \o SubSeq(s, k + 1, e - 2) \o Chars("</code>")

\* ^ under /m
LineStart(s, i) == i = 1 \/ CharAt(s, i - 1) \in LineTerminators

\* the same expression without its ^
lineEndAnywhere(s, i, prefix) ==
  IF LitAt(s, i, prefix)
  THEN SkipUntil(s, i + Len(prefix), LineTerminators)
  ELSE 0

\* /^prefix(.*$)/gim
lineEnd(s, i, prefix) ==
  IF LineStart(s, i) /\ LitAt(s, i, prefix)
  THEN SkipUntil(s, i + Len(prefix), LineTerminators)
  ELSE 0

kH3 == Chars("### ")
\* the prefix without its space: it also starts a ### line
kH2NoSpace == Chars("##")

kH2 == Chars("## ")
kH1 == Chars("# ")
kItem == Chars("- ")

h3End(s, i) == lineEnd(s, i, kH3)
h2End(s, i) == lineEnd(s, i, kH2)
h1End(s, i) == lineEnd(s, i, kH1)
itemEnd(s, i) == lineEnd(s, i, kItem)

h3Rep(s, k, e) ==
  Chars("<h3 class=\"text-lg font-semibold text-foreground mb-3 mt-6 first:mt-0\">")
    \o SubSeq(s, k + 4, e - 1) \o Chars("</h3>")

h2Rep(s, k, e) ==
  Chars("<h2 class=\"text-xl font-bold text-foreground mb-4 mt-8 first:mt-0\">")
    \o SubSeq(s, k + 3, e - 1) \o Chars("</h2>")

h1Rep(s, k, e) ==
  Chars("<h1 class=\"text-2xl font-bold gradient-text mb-6 mt-10 first:mt-0\">")
    \o SubSeq(s, k + 2, e - 1) \o Chars("</h1>")

itemRep(s, k, e) ==
  Chars("<li class=\"ml-4 mb-2 text-muted-foreground\"><span class=\"inline-block w-2 h-2 bg-primary rounded-full mr-3 mt-2\"></span>")
    \o SubSeq(s, k + 2, e - 1) \o Chars("</li>")

\* the ']' that ends the text of a link starting at i
linkTextEnd(s, i) == SkipUntil(s, i + 1, {"]"})

\* the same expression without its (url) part
linkEndTextOnly(s, i) ==
  IF CharAt(s, i) = "[" /\ linkTextEnd(s, i) > i + 1
                       /\ linkTextEnd(s, i) <= Len(s)
  THEN linkTextEnd(s, i) + 1 ELSE 0

\* /\[([^\]]+)\]\(([^)]+)\)/g
linkEnd(s, i) ==
  IF CharAt(s, i) = "["
  THEN LET j == linkTextEnd(s, i)
           k == SkipUntil(s, j + 2, {")"})
       IN IF /\ j > i + 1
             /\ CharAt(s, j + 1) = "("
             /\ k > j + 2
             /\ k <= Len(s)
          THEN k + 1 ELSE 0
  ELSE 0

linkText(s, i) == SubSeq(s, i + 1, linkTextEnd(s, i) - 1)
linkUrl(s, i, e) == SubSeq(s, linkTextEnd(s, i) + 2, e - 2)

linkRep(s, k, e) ==
  Chars("<a href=\"") \o linkUrl(s, k, e)
    \o Chars("\" class=\"text-primary hover:text-primary/80 underline transition-colors\" target=\"_blank\" rel=\"noopener noreferrer\">")
    \o linkText(s, k) \o Chars("</a>")

kLiOpen == Chars("<li")
kLiClose == Chars("</li>")

\* <li.*?<\/li>\s* : one list item and the white space after it
listItemEnd(s, i) ==
  IF LitAt(s, i, kLiOpen)
  THEN LET nl == SkipUntil(s, i + 3, LineTerminators)
           closes == {j \in i + 3..nl : LitAt(s, j, kLiClose)}
       IN IF closes = {} THEN 0
          ELSE SkipClass(s, Min(closes) + 5, SpaceChars)
  ELSE 0

\* the same expression without its + : one item
listEndOne(s, i) == listItemEnd(s, i)

\* /(<li.*?<\/li>\s*)+/g : as many items as follow one another
RECURSIVE listEnd(_, _)
listEnd(s, i) ==
  LET e == listItemEnd(s, i) IN
  IF e = 0 THEN 0
  ELSE LET more == listEnd(s, e) IN IF more = 0 THEN e ELSE more

listRep(s, k, e) ==
  Chars("<ul class=\"space-y-1 mb-4\">") \o SubSeq(s, k, e - 1) \o Chars("</ul>")

kBlankLine == Chars("\n\n")

\* /\n\n/g and /\n/g
blankLineEnd(s, i) == IF LitAt(s, i, kBlankLine) THEN i + 2 ELSE 0
newlineEnd(s, i) == IF CharAt(s, i) = "\n" THEN i + 1 ELSE 0

kParagraphOpen == Chars("<p class=\"text-muted-foreground mb-4\">")
kParagraphClose == Chars("</p>")

paragraphBreak(s, k, e) == kParagraphClose \o kParagraphOpen
lineBreak(s, k, e) == Chars("<br>")

\* the substitutions of parseMarkdown up to the final wrap
parseInline(text) ==
  ReplaceAll(ReplaceAll(ReplaceAll(text, boldEnd, boldRep),
                        italicEnd, italicRep), codeEnd, codeRep)

parseHeaders(text) ==
  ReplaceAll(ReplaceAll(ReplaceAll(text, h3End, h3Rep), h2End, h2Rep),
             h1End, h1Rep)

parseLinks(text) == ReplaceAll(text, linkEnd, linkRep)

parseLists(text) ==
  ReplaceAll(ReplaceAll(text, itemEnd, itemRep), listEnd, listRep)

\* the paragraph substitution alone
parseBreaksParagraphsOnly(text) ==
  ReplaceAll(text, blankLineEnd, paragraphBreak)

parseBreaks(text) ==
  ReplaceAll(ReplaceAll(text, blankLineEnd, paragraphBreak),
             newlineEnd, lineBreak)

\* if (!text.startsWith('<h') && !text.startsWith('<ul') && !text.startsWith('<p'))
needsWrap(text) ==
  /\ ~StartsWith(text, Chars("<h"))
  /\ ~StartsWith(text, Chars("<ul"))
  /\ ~StartsWith(text, Chars("<p"))

wrapParagraph(text) ==
  IF needsWrap(text) THEN kParagraphOpen \o text \o kParagraphClose ELSE text

parseMarkdown(text) ==
  wrapParagraph(parseBreaks(parseLists(parseLinks(parseHeaders(
    parseInline(text))))))

----------------------------------------------------------------------------
(* The inputs: strings put together from the fragments of one corpus.      *)

\* how many fragments an input is made of at most
MaxTyped == 3

\* a tag with a tag that is not allowed nested before its closing bracket
Nest(tag) == SubSeq(tag, 1, Len(tag) - 1) \o Chars("<b>>")

ScriptCorpus ==
  {Chars("<script>"), Chars("</SCRIPT>"), Nest(Chars("<script>")),
   Nest(Chars("</script>")), Chars("x<y"), Chars("<em>")}

HandlerCorpus ==
  {Chars("<a href=\"x\""), Chars(" onclick=\"y\""), Chars("onclick=\"y\""),
   Chars("/onclick=y"), Chars(" ONLOAD = 'y'"), Chars(">")}

UriCorpus ==
  {Chars("<a href=\""), Chars("<span src='"), Chars("JavaScript:x"),
   Chars("data:x"), Chars("da<iframe>ta:x"), Chars("\">"), Chars(" onx=1\">")}

EmbedCorpus ==
  {Chars("<iframe"), Chars("<Object"), Chars("<ifr"), Chars("<b>"),
   Chars("ame>"), Chars(" src=\"x\">"), Chars(">")}

TagCorpus ==
  {Chars("<p class=\"k\">"), Chars("</p>"), Chars("<Em>"), Chars("<x "),
   Chars("</div >"), Chars("a < b"), Chars("<h1\n>")}

LinkCorpus ==
  {Chars("[x]("), Chars("[</script>]("), Chars("javascript:alert(1)"),
   Chars("javascript:<script"), Chars("http://x"), Chars(")")}

MarkdownCorpus ==
  {Chars("# Title"), Chars("\n"), Chars("**bold**"), Chars(" text with a "),
   Chars("<script>alert(1)</script>"), Chars("- item")}

\* allowed tags with attributes of several kinds
AttributeCorpus ==
  {Chars("<p style=\"x\">"), Chars("<a href=javascript:x>"),
   Chars("<span class=\"k\""), Chars(" style=\"x\""), Chars(">"),
   Chars("text</p>")}

\* whole embedding elements, opening and closing tag, with text inside
ElementCorpus ==
  {Chars("<iframe src=\"x\">"), Chars("</iframe>"), Chars("inner text"),
   Chars("<object>"), Chars("</object>"), Chars("<embed>"), Chars("</EMBED>")}

Corpora ==
  <<ScriptCorpus, HandlerCorpus, UriCorpus, EmbedCorpus, TagCorpus,
    LinkCorpus, MarkdownCorpus, AttributeCorpus, ElementCorpus>>

\* markdown a user writes: emphasis, headers, lists, plain text
EmphasisCorpus ==
  {Chars("**bold**"), Chars(" and "), Chars("*italic*"), Chars("**bo"),
   Chars("ld**"), Chars("\n")}

HeaderCorpus ==
  {Chars("# Title"), Chars("## Sub"), Chars("### Deep"), Chars("\n"),
   Chars("#tag"), Chars("text "), Chars("#### More")}

ListCorpus ==
  {Chars("- a\n"), Chars("- b\n"), Chars("- c"), Chars("text\n"),
   Chars("\n"), Chars(" \n"), Chars("-x\n")}

PlainCorpus ==
  {Chars("hello world"), Chars("\n"), Chars(" and more"),
   Chars("<pending>"), Chars("2 < 3"), Chars("#1")}

\* tokens that are not closed or not complete
MalformedCorpus ==
  {Chars("*"), Chars("**"), <<Backquote>>, Chars("[text]"), Chars("plain "),
   Chars("(url"), Chars("\n")}

\* prose about settings, with markdown around it
ProseCorpus ==
  {Chars("set"), Chars(" online=true"), Chars(" now"), Chars("**bold**"),
   Chars("# Title\n"), Chars("[docs](http://x)")}

MarkdownCorpora ==
  <<EmphasisCorpus, HeaderCorpus, ListCorpus, PlainCorpus, MalformedCorpus,
    ProseCorpus>>

AllCorpora == Corpora \o MarkdownCorpora

----------------------------------------------------------------------------
(* The callers: a direct call of sanitizeHTML on HTML from outside, the    *)
(* MarkdownRenderer component of MarkdownRenderer.tsx and the              *)
(* MarkdownRenderer component of part_004.                                 *)

Init ==
  /\ corpus \in DOMAIN Corpora
  /\ content = <<>>
  /\ typed = 0
  /\ phase = "input"
  /\ html = <<>>
  /\ parsed = <<>>
  /\ injected = <<>>
  /\ ComponentUnmounted
  /\ StorageUntouched
  /\ BoundaryUnused
  /\ StatsUnused

\* the caller extends the text it is about to hand over
Type ==
  /\ phase = "input"
  /\ typed < MaxTyped
  /\ \E f \in AllCorpora[corpus] : content' = content \o f
  /\ typed' = typed + 1
  /\ UNCHANGED <<corpus, phase, html, parsed, injected, componentVars, storageVars, boundaryVars, statsVars>>

\* sanitizeHTML(content), called on HTML that did not come from the parser
Sanitize ==
  /\ phase = "input"
  /\ html' = sanitizeHTML(content)
  /\ phase' = "sanitized"
  /\ UNCHANGED <<corpus, content, typed, parsed, injected, componentVars, storageVars, boundaryVars, statsVars>>

\* sanitizeHTML called once more, on what sanitizeHTML returned
SanitizeAgain ==
  /\ phase \in {"sanitized", "resanitized"}
  /\ html' = sanitizeHTML(html)
  /\ phase' = "resanitized"
  /\ UNCHANGED <<corpus, content, typed, parsed, injected, componentVars, storageVars, boundaryVars, statsVars>>

\* MarkdownRenderer.tsx: const parsed = parseMarkdown(content);
\* safeHTML = sanitizeHTML(parsed); dangerouslySetInnerHTML={{__html: safeHTML}}
Render ==
  /\ phase = "input"
  /\ parsed' = parseMarkdown(content)
  /\ injected' = sanitizeHTML(parsed')
  /\ phase' = "rendered"
  /\ UNCHANGED <<corpus, content, typed, html, componentVars, storageVars, boundaryVars, statsVars>>

\* part_004: dangerouslySetInnerHTML={{ __html: parseMarkdown(content) }}
RenderUnsanitized ==
  /\ phase = "input"
  /\ parsed' = parseMarkdown(content)
  /\ injected' = parsed'
  /\ phase' = "renderedUnsanitized"
  /\ UNCHANGED <<corpus, content, typed, html, componentVars, storageVars, boundaryVars, statsVars>>

Next == Type \/ Sanitize \/ SanitizeAgain \/ Render \/ RenderUnsanitized

Spec == Init /\ [][Next]_vars

\* the same callers handing over markdown
InitMarkdown ==
  /\ corpus \in (DOMAIN AllCorpora) \ (DOMAIN Corpora)
  /\ content = <<>>
  /\ typed = 0
  /\ phase = "input"
  /\ html = <<>>
  /\ parsed = <<>>
  /\ injected = <<>>
  /\ ComponentUnmounted
  /\ StorageUntouched
  /\ BoundaryUnused
  /\ StatsUnused

SpecMarkdown == InitMarkdown /\ [][Next]_vars

----------------------------------------------------------------------------
(* One MarkdownRenderer on the page, MarkdownRenderer.tsx:133-157.  React  *)
(* calls the function with the props of the parent on mount and on every   *)
(* re-render; useMemo keeps its cell between the renders of one instance.  *)

\* how many times the component is rendered at most
MaxRenders == 4

\* the props a parent passes
RendererContents ==
  {<<>>, Chars("# Title"), Chars("**bold** text"),
   Chars("<script>alert(1)</script>")}

RendererClassNames == {Undefined, "my-class", "compact"}

RendererProps ==
  [content : RendererContents, className : RendererClassNames]

\* cn("prose ...", ..., className): the class values that are not undefined
cn(className) ==
  LET base == <<"prose prose-sm max-w-none",
                "prose-headings:font-display prose-headings:tracking-tight",
                "prose-code:text-primary prose-code:bg-muted prose-code:rounded",
                "prose-a:text-primary prose-a:no-underline hover:prose-a:underline",
                "prose-strong:text-foreground prose-strong:font-semibold",
                "prose-em:text-muted-foreground">>
  IN IF className = Undefined THEN base ELSE Append(base, className)

\* a dependency array that names nothing
memoDepsEmpty(p) == <<>>

\* the dependency array of the useMemo call: [content]
memoDeps(p) == <<p.content>>

\* the callback of the useMemo call
safeHTML(p) == sanitizeHTML(parseMarkdown(p.content))

\* useMemo finds the value of the previous render still valid: there is
\* one and every dependency is the same (Object.is) as it was then
memoHit(p) == memo.set /\ memo.deps = memoDeps(p)

\* one call of MarkdownRenderer(p) and the commit of the element it returns
RenderComponent(p) ==
  /\ renders < MaxRenders
  /\ props' = p
  /\ IF memoHit(p)
     THEN UNCHANGED <<memo, runs>>
     ELSE /\ memo' = [set |-> TRUE, deps |-> memoDeps(p), value |-> safeHTML(p)]
          /\ runs' = runs + 1
  /\ dom' = [mounted |-> TRUE, html |-> memo'.value,
             className |-> cn(p.className)]
  /\ renders' = renders + 1
  /\ UNCHANGED <<pipelineVars, storageVars, boundaryVars, statsVars>>

\* the first render of an instance
Mount == ~dom.mounted /\ \E p \in RendererProps : RenderComponent(p)

\* the parent renders again, with the same or with other props
Rerender == dom.mounted /\ \E p \in RendererProps : RenderComponent(p)

\* the instance goes away, and its hooks with it
Unmount ==
  /\ dom.mounted
  /\ memo' = [set |-> FALSE, deps |-> <<>>, value |-> <<>>]
  /\ dom' = [mounted |-> FALSE, html |-> <<>>, className |-> <<>>]
  /\ UNCHANGED <<props, runs, renders>>
  /\ UNCHANGED <<pipelineVars, storageVars, boundaryVars, statsVars>>

InitRenderer ==
  /\ ComponentUnmounted
  /\ PipelineUnused
  /\ StorageUntouched
  /\ BoundaryUnused
  /\ StatsUnused

NextRenderer == Mount \/ Rerender \/ Unmount

SpecRenderer == InitRenderer /\ [][NextRenderer]_vars

----------------------------------------------------------------------------
(* The storage helpers, lib/mockData.ts:588-935.  localStorage maps the    *)
(* keys it holds to the strings stored under them.  A helper is an         *)
(* operator of the storage st it starts from, the clock, and f: the f-th   *)
(* call of a localStorage method that this helper invocation makes throws  *)
(* (0: none does; the calls are counted from the probe's setItem).  It     *)
(* yields what the helper returns (ret), the storage it leaves (st) and    *)
(* how many localStorage calls it made (ops).                              *)

JSNull == <<"null">>
JSString(s) == <<"string", s>>
JSNumber(n) == <<"number", n>>
JSBoolean(b) == <<"boolean", b>>
JSArray(a) == <<"array", a>>

\* localStorage.key(i) enumerates the keys in this order
KeyOrder == <<kTestKey, "theme", "user">>

KeysOf(st) == SelectSeq(KeyOrder, LAMBDA k : k \in DOMAIN st)

\* localStorage.setItem(k, raw) and localStorage.removeItem(k)
Put(st, k, raw) ==
  [x \in DOMAIN st \cup {k} |-> IF x = k THEN raw ELSE st[x]]
Remove(st, k) == [x \in DOMAIN st \ {k} |-> st[x]]

kEmptyStorage == [k \in {} |-> <<>>]

\* the f-th localStorage call threw during an invocation that yielded r
Threw(r, f) == f \in 1..r.ops

\* Number.prototype.toString of an integer, as JSON.stringify writes it
RECURSIVE DigitsOf(_)
DigitsOf(n) ==
  IF n < 10 THEN <<Digits[n + 1]>>
  ELSE DigitsOf(n \div 10) \o <<Digits[(n % 10) + 1]>>

NumberJSON(n) == IF n < 0 THEN <<"-">> \o DigitsOf(-n) ELSE DigitsOf(n)

\* JSON.stringify of a stored value: a string without characters to
\* escape, or an integer
ValueJSON(v) ==
  IF v[1] = "string" THEN <<"\"">> \o v[2] \o <<"\"">>
  ELSE NumberJSON(v[2])

kValueField == Chars("{\"value\":")
kCreatedAtField == Chars(",\"createdAt\":")
kExpiresAtField == Chars(",\"expiresAt\":")

\* JSON.stringify(item) of item = { value, createdAt, expiresAt? }
JSONStringify(item) ==
  kValueField \o ValueJSON(item.value)
  \o kCreatedAtField \o NumberJSON(item.createdAt)
  \o (IF item.expiresAt = None THEN <<>>
      ELSE kExpiresAtField \o NumberJSON(item.expiresAt[1]))
  \o <<"}">>

\* -?[0-9]+ at position i: the position after it, i when there is none
NumberEnd(raw, i) ==
  LET d == IF CharAt(raw, i) = "-" THEN i + 1 ELSE i
      e == SkipClass(raw, d, Range(Digits))
  IN IF e > d THEN e ELSE i

DigitValue(c) == CHOOSE n \in 0..9 : Digits[n + 1] = c

RECURSIVE DigitsValue(_)
DigitsValue(ds) ==
  IF ds = <<>> THEN 0
  ELSE DigitsValue(SubSeq(ds, 1, Len(ds) - 1)) * 10 + DigitValue(ds[Len(ds)])

NumberValue(raw, i, e) ==
  IF raw[i] = "-" THEN 0 - DigitsValue(SubSeq(raw, i + 1, e - 1))
  ELSE DigitsValue(SubSeq(raw, i, e - 1))

\* JSON.parse(raw) of what the helpers and other scripts store: ok is
\* FALSE when it throws a SyntaxError
JSONParse(raw) ==
  LET v0 == Len(kValueField) + 1
      isString == CharAt(raw, v0) = "\""
      v1 == IF isString THEN SkipUntil(raw, v0 + 1, {"\""}) + 1
            ELSE NumberEnd(raw, v0)
      c0 == v1 + Len(kCreatedAtField)
      c1 == NumberEnd(raw, c0)
      hasExpiresAt == LitAt(raw, c1, kExpiresAtField)
      e0 == c1 + Len(kExpiresAtField)
      e1 == IF hasExpiresAt THEN NumberEnd(raw, e0) ELSE c1
      ok == /\ LitAt(raw, 1, kValueField)
            /\ v1 > v0
            /\ LitAt(raw, v1, kCreatedAtField)
            /\ c1 > c0
            /\ hasExpiresAt => e1 > e0
            /\ e1 = Len(raw)
            /\ raw[e1] = "}"
  IN IF ok
     THEN [ok |-> TRUE,
           value |-> IF isString THEN JSString(SubSeq(raw, v0 + 1, v1 - 2))
                     ELSE JSNumber(NumberValue(raw, v0, v1)),
           createdAt |-> NumberValue(raw, c0, c1),
           expiresAt |-> IF hasExpiresAt THEN Some(NumberValue(raw, e0, e1))
                         ELSE None]
     ELSE [ok |-> FALSE, value |-> JSUndefined, createdAt |-> 0,
           expiresAt |-> None]

\* defaultValue ?? null
DefaultOrNull(d) == IF d \in {JSUndefined, JSNull} THEN JSNull ELSE d

\* parsed.expiresAt && Date.now() > parsed.expiresAt
isExpired(item, t) ==
  /\ item.expiresAt # None
  /\ item.expiresAt[1] # 0
  /\ t > item.expiresAt[1]

\* isLocalStorageAvailable(): setItem(test, test), then removeItem(test)
isLocalStorageAvailable(st, f) ==
  IF f = 1 THEN [available |-> FALSE, st |-> st]
  ELSE IF f = 2
  THEN [available |-> FALSE, st |-> Put(st, kTestKey, Chars(kTestKey))]
  ELSE [available |-> TRUE, st |-> Remove(st, kTestKey)]

\* the localStorage calls of the probe
kProbeOps == 2

getItem(key, defaultValue, st, t, f) ==
  LET a == isLocalStorageAvailable(st, f)
      miss(s, n) ==
        [ret |-> DefaultOrNull(defaultValue), st |-> s, ops |-> n]
  IN IF ~a.available THEN miss(a.st, f)
     ELSE IF f = kProbeOps + 1 THEN miss(a.st, f)
     ELSE IF key \notin DOMAIN a.st \/ a.st[key] = <<>>
     THEN miss(a.st, kProbeOps + 1)
     ELSE LET item == JSONParse(a.st[key]) IN
          IF ~item.ok THEN miss(a.st, kProbeOps + 1)
          ELSE IF isExpired(item, t)
          THEN IF f = kProbeOps + 2 THEN miss(a.st, f)
               ELSE miss(Remove(a.st, key), kProbeOps + 2)
          ELSE [ret |-> item.value, st |-> a.st, ops |-> kProbeOps + 1]

\* the item setItem builds; t1 and t2 are its two readings of Date.now()
newItem(value, options, t1, t2) ==
  [value |-> value,
   createdAt |-> t1,
   expiresAt |-> IF options.ttl # None /\ options.ttl[1] # 0
                 THEN Some(t2 + options.ttl[1])
                 ELSE None]

setItem(key, value, options, st, t1, t2, f) ==
  LET a == isLocalStorageAvailable(st, f) IN
  IF ~a.available THEN [ret |-> JSBoolean(FALSE), st |-> a.st, ops |-> f]
  ELSE IF f = kProbeOps + 1
  THEN [ret |-> JSBoolean(FALSE), st |-> a.st, ops |-> f]
  ELSE [ret |-> JSBoolean(TRUE),
        st |-> Put(a.st, key, JSONStringify(newItem(value, options, t1, t2))),
        ops |-> kProbeOps + 1]

removeItem(key, st, f) ==
  LET a == isLocalStorageAvailable(st, f) IN
  IF ~a.available THEN [ret |-> JSBoolean(FALSE), st |-> a.st, ops |-> f]
  ELSE IF f = kProbeOps + 1
  THEN [ret |-> JSBoolean(FALSE), st |-> a.st, ops |-> f]
  ELSE [ret |-> JSBoolean(TRUE), st |-> Remove(a.st, key),
        ops |-> kProbeOps + 1]

clear(st, f) ==
  LET a == isLocalStorageAvailable(st, f) IN
  IF ~a.available THEN [ret |-> JSBoolean(FALSE), st |-> a.st, ops |-> f]
  ELSE IF f = kProbeOps + 1
  THEN [ret |-> JSBoolean(FALSE), st |-> a.st, ops |-> f]
  ELSE [ret |-> JSBoolean(TRUE), st |-> kEmptyStorage, ops |-> kProbeOps + 1]

\* !prefix || key.startsWith(prefix)
matchesPrefix(key, prefix) ==
  prefix \in {Undefined, ""} \/ StartsWith(Chars(key), Chars(prefix))

\* one localStorage.key(i) for each key
getKeys(prefix, st, f) ==
  LET a == isLocalStorageAvailable(st, f)
      keys == KeysOf(a.st)
      last == kProbeOps + Len(keys)
  IN IF ~a.available THEN [ret |-> JSArray(<<>>), st |-> a.st, ops |-> f]
     ELSE IF f \in kProbeOps + 1..last
     THEN [ret |-> JSArray(<<>>), st |-> a.st, ops |-> f]
     ELSE [ret |-> JSArray(SelectSeq(keys,
                             LAMBDA k : k # "" /\ matchesPrefix(k, prefix))),
           st |-> a.st, ops |-> last]

hasItem(key, st, t, f) ==
  LET a == isLocalStorageAvailable(st, f)
      no(s, n) == [ret |-> JSBoolean(FALSE), st |-> s, ops |-> n]
  IN IF ~a.available THEN no(a.st, f)
     ELSE IF f = kProbeOps + 1 THEN no(a.st, f)
     ELSE IF key \notin DOMAIN a.st \/ a.st[key] = <<>>
     THEN no(a.st, kProbeOps + 1)
     ELSE LET item == JSONParse(a.st[key]) IN
          IF ~item.ok THEN no(a.st, kProbeOps + 1)
          ELSE IF isExpired(item, t)
          THEN IF f = kProbeOps + 2 THEN no(a.st, f)
               ELSE no(Remove(a.st, key), kProbeOps + 2)
          ELSE [ret |-> JSBoolean(TRUE), st |-> a.st, ops |-> kProbeOps + 1]

\* key.length + value.length of the entries before position i
RECURSIVE sizeBefore(_, _, _)
sizeBefore(st, keys, i) ==
  IF i = 1 THEN 0
  ELSE sizeBefore(st, keys, i - 1)
       + (IF keys[i - 1] # "" /\ st[keys[i - 1]] # <<>>
          THEN Len(keys[i - 1]) + Len(st[keys[i - 1]])
          ELSE 0)

\* one localStorage.key(i) and one localStorage.getItem(key) for each key
getSize(st, f) ==
  LET a == isLocalStorageAvailable(st, f)
      keys == KeysOf(a.st)
      last == kProbeOps + 2 * Len(keys)
  IN IF ~a.available THEN [ret |-> JSNumber(0), st |-> a.st, ops |-> f]
     ELSE IF f \in kProbeOps + 1..last
     THEN [ret |-> JSNumber(0), st |-> a.st, ops |-> f]
     ELSE [ret |-> JSNumber(sizeBefore(a.st, keys, Len(keys) + 1) * 2),
           st |-> a.st, ops |-> last]

\* the loop of cleanupExpired from index i - 1 down, after n localStorage
\* calls and removed removals.  A throw of key(i) or getItem(key) ends the
\* loop in the outer catch; a throw of JSON.parse or of removeItem(key) is
\* caught inside the loop, which goes on with the next index.
RECURSIVE cleanupFrom(_, _, _, _, _, _)
cleanupFrom(st, t, i, removed, n, f) ==
  IF i < 1 THEN [ret |-> JSNumber(removed), st |-> st, ops |-> n]
  ELSE IF f \in {n + 1, n + 2}
  THEN [ret |-> JSNumber(removed), st |-> st, ops |-> f]
  ELSE LET key == KeysOf(st)[i]
           item == JSONParse(st[key])
       IN IF st[key] = <<>> \/ ~item.ok \/ ~isExpired(item, t)
          THEN cleanupFrom(st, t, i - 1, removed, n + 2, f)
          ELSE IF f = n + 3
          THEN cleanupFrom(st, t, i - 1, removed, n + 3, f)
          ELSE cleanupFrom(Remove(st, key), t, i - 1, removed + 1, n + 3, f)

cleanupExpired(st, t, f) ==
  LET a == isLocalStorageAvailable(st, f) IN
  IF ~a.available THEN [ret |-> JSNumber(0), st |-> a.st, ops |-> f]
  ELSE cleanupFrom(a.st, t, Len(KeysOf(a.st)), 0, kProbeOps, f)

----------------------------------------------------------------------------
(* Calls of the storage helpers.  A caller passes one of the keys, values, *)
(* defaults, options and prefixes below; time passes between calls and     *)
(* between the two readings of Date.now() in setItem.                      *)

MaxNow == 3
MaxFault == 6

StorageKeys == UserKeys \cup {kTestKey}
StoredValues == {JSString(Chars("dark"))}
Defaults == {JSUndefined, JSString(Chars("light"))}
StorageOptions == {[ttl |-> None], [ttl |-> Some(0)], [ttl |-> Some(1)]}
Prefixes == {Undefined, "the"}

\* the item written last is stored under key
WrittenUnder(key) == written # None /\ written[1].key = key

\* the helper's result r becomes the state of the storage and the value the
\* caller holds
Returns(r) ==
  /\ localStorage' = r.st
  /\ returned' = r.ret
  /\ UNCHANGED <<pipelineVars, componentVars, boundaryVars, statsVars>>

GetItemCall(key, defaultValue, f) ==
  /\ Returns(getItem(key, defaultValue, localStorage, now, f))
  /\ UNCHANGED <<now, written>>

GetItem ==
  \E key \in StorageKeys, d \in Defaults, f \in 0..kProbeOps + 2 :
    GetItemCall(key, d, f)

\* t2 is the second reading of Date.now()
SetItemCall(key, value, options, t2, f) ==
  LET r == setItem(key, value, options, localStorage, now, t2, f) IN
  /\ Returns(r)
  /\ now' = t2
  /\ written' =
       IF r.ret = JSBoolean(TRUE)
       THEN Some([key |-> key,
                  value |-> value,
                  ttl |-> options.ttl,
                  createdAt |-> now,
                  expiresAt |-> newItem(value, options, now, t2).expiresAt])
       ELSE written

SetItem ==
  \E key \in StorageKeys, value \in StoredValues,
     options \in StorageOptions, t2 \in {now, now + 1},
     f \in 0..kProbeOps + 1 :
    /\ t2 <= MaxNow
    /\ SetItemCall(key, value, options, t2, f)

RemoveItemCall(key, f) ==
  LET r == removeItem(key, localStorage, f) IN
  /\ Returns(r)
  /\ written' = IF r.ret = JSBoolean(TRUE) /\ WrittenUnder(key)
                THEN None
                ELSE written
  /\ UNCHANGED now

RemoveItem ==
  \E key \in StorageKeys, f \in 0..kProbeOps + 1 : RemoveItemCall(key, f)

ClearCall(f) ==
  LET r == clear(localStorage, f) IN
  /\ Returns(r)
  /\ written' = IF r.ret = JSBoolean(TRUE) THEN None ELSE written
  /\ UNCHANGED now

Clear == \E f \in 0..kProbeOps + 1 : ClearCall(f)

GetKeysCall(prefix, f) ==
  /\ Returns(getKeys(prefix, localStorage, f))
  /\ UNCHANGED <<now, written>>

GetKeys == \E prefix \in Prefixes, f \in 0..MaxFault : GetKeysCall(prefix, f)

HasItemCall(key, f) ==
  /\ Returns(hasItem(key, localStorage, now, f))
  /\ UNCHANGED <<now, written>>

HasItem == \E key \in StorageKeys, f \in 0..kProbeOps + 2 : HasItemCall(key, f)

GetSizeCall(f) ==
  /\ Returns(getSize(localStorage, f))
  /\ UNCHANGED <<now, written>>

GetSize == \E f \in 0..MaxFault : GetSizeCall(f)

CleanupExpiredCall(f) ==
  /\ Returns(cleanupExpired(localStorage, now, f))
  /\ UNCHANGED <<now, written>>

CleanupExpired == \E f \in 0..MaxFault : CleanupExpiredCall(f)

\* a millisecond passes
Tick ==
  /\ now < MaxNow
  /\ now' = now + 1
  /\ UNCHANGED <<localStorage, returned, written>>
  /\ UNCHANGED <<pipelineVars, componentVars, boundaryVars, statsVars>>

\* another script of the page stores a string of its own under a key
ForeignSetItem ==
  \E key \in UserKeys :
    /\ localStorage' = Put(localStorage, key, Chars("dark"))
    /\ written' = IF WrittenUnder(key) THEN None ELSE written
    /\ UNCHANGED <<now, returned>>
    /\ UNCHANGED <<pipelineVars, componentVars, boundaryVars, statsVars>>

InitStorage ==
  /\ StorageUntouched
  /\ PipelineUnused
  /\ ComponentUnmounted
  /\ BoundaryUnused
  /\ StatsUnused

NextStorage ==
  \/ GetItem
  \/ SetItem
  \/ RemoveItem
  \/ Clear
  \/ GetKeys
  \/ HasItem
  \/ GetSize
  \/ CleanupExpired
  \/ Tick
  \/ ForeignSetItem

SpecStorage == InitStorage /\ [][NextStorage]_vars

----------------------------------------------------------------------------
(* The error boundary, ErrorBoundary.tsx:60-255.  When a child throws      *)
(* while rendering, React merges getDerivedStateFromError(error) into the  *)
(* state, renders the boundary again and then, in the same commit, calls   *)
(* componentDidCatch(error, errorInfo).                                    *)

MaxErrors == 3

Errors == {"TypeError", "RangeError"}

\* what ErrorBoundary.render() returns besides the fallback prop
kChildren == "children"
kDefaultCard == "defaultErrorCard"

\* the fallback prop: left out, null, an empty string, an element
Fallbacks == {Undefined, Null, "", "CustomErrorUI"}

\* if (fallback)
Truthy(node) == node \notin {Undefined, Null, ""}

\* errorInfo.componentStack of an error thrown by a child
componentStack(error) == "at Child: " \o error

\* this.setState(partial), and the merge of getDerivedStateFromError
setState(st, partial) ==
  [field \in DOMAIN st |->
     IF field \in DOMAIN partial THEN partial[field] ELSE st[field]]

getDerivedStateFromError(error) == [hasError |-> TRUE, error |-> error]

render(st, p) ==
  IF st.hasError
  THEN IF Truthy(p.fallback) THEN p.fallback ELSE kDefaultCard
  ELSE kChildren

\* a child throws error while it renders
ChildThrows ==
  \E error \in Errors :
    /\ rendered = kChildren
    /\ pendingCatch = None
    /\ caught < MaxErrors
    /\ state' = setState(state, getDerivedStateFromError(error))
    /\ rendered' = render(state', boundaryProps)
    /\ pendingCatch' =
         Some([error |-> error, errorInfo |-> componentStack(error)])
    /\ caught' = caught + 1
    /\ caughtSinceReset' = TRUE
    /\ UNCHANGED <<boundaryProps, onErrorCalls>>
    /\ UNCHANGED <<pipelineVars, componentVars, storageVars, statsVars>>

ComponentDidCatch ==
  /\ pendingCatch # None
  /\ state' = setState(state, [errorInfo |-> pendingCatch[1].errorInfo])
  /\ onErrorCalls' = IF boundaryProps.onError
                     THEN Append(onErrorCalls, pendingCatch[1])
                     ELSE onErrorCalls
  /\ rendered' = render(state', boundaryProps)
  /\ pendingCatch' = None
  /\ UNCHANGED <<boundaryProps, caught, caughtSinceReset>>
  /\ UNCHANGED <<pipelineVars, componentVars, storageVars, statsVars>>

\* the Try Again button of the default card, or a call through a ref
HandleReset ==
  /\ pendingCatch = None
  /\ state' = setState(state, [hasError |-> FALSE, error |-> Null,
                               errorInfo |-> Null])
  /\ rendered' = render(state', boundaryProps)
  /\ caughtSinceReset' = FALSE
  /\ UNCHANGED <<boundaryProps, pendingCatch, onErrorCalls, caught>>
  /\ UNCHANGED <<pipelineVars, componentVars, storageVars, statsVars>>

InitBoundary ==
  /\ BoundaryConstructed
  /\ boundaryProps \in [fallback : Fallbacks, onError : BOOLEAN]
  /\ PipelineUnused
  /\ ComponentUnmounted
  /\ StorageUntouched
  /\ StatsUnused

NextBoundary == ChildThrows \/ ComponentDidCatch \/ HandleReset

SpecBoundary == InitBoundary /\ [][NextBoundary]_vars

----------------------------------------------------------------------------
(* The useStats hook of hooks/useStats.tsx in one component at a time.     *)
(* Time is counted in milliseconds and moves in steps of kTick; a timeout  *)
(* runs its callback when it is due, the earliest first, and time does not *)
(* pass over a timeout that is due.  All timeouts of the hook have the     *)
(* delay kDelay, so they are due in the order they were set.               *)

kDelay == 1000
kTick == 500
MaxClock == 2000
MaxTimers == 3
MaxMounts == 2

\* setTimeout(callback, 1000) of the instance owner; kind names the callback
setTimeout(ts, kind, owner, t) ==
  Append(ts, [kind |-> kind, due |-> t + kDelay, owner |-> owner])

\* return () => clearTimeout(timer): the timeout of the effect, no other
clearTimeout(ts, owner) ==
  SelectSeq(ts, LAMBDA t : ~(t.kind = "load" /\ t.owner = owner))

\* the component mounts: useState(true), then the effect sets its timeout
MountStats ==
  /\ ~statsMounted
  /\ instance < MaxMounts
  /\ Len(timers) < MaxTimers
  /\ statsMounted' = TRUE
  /\ instance' = instance + 1
  /\ loading' = TRUE
  /\ timers' = setTimeout(timers, "load", instance + 1, clock)
  /\ UNCHANGED clock
  /\ UNCHANGED <<pipelineVars, componentVars, storageVars, boundaryVars>>

\* refreshData(), from the refresh button or from any other caller
RefreshData ==
  /\ statsMounted
  /\ Len(timers) < MaxTimers
  /\ loading' = TRUE
  /\ timers' = setTimeout(timers, "refresh", instance, clock)
  /\ UNCHANGED <<statsMounted, instance, clock>>
  /\ UNCHANGED <<pipelineVars, componentVars, storageVars, boundaryVars>>

\* () => { setLoading(false); } runs; setting the state of an instance
\* that has unmounted changes nothing
TimerFires ==
  /\ timers # <<>>
  /\ Head(timers).due <= clock
  /\ timers' = Tail(timers)
  /\ loading' = IF statsMounted /\ Head(timers).owner = instance
                THEN FALSE ELSE loading
  /\ UNCHANGED <<statsMounted, instance, clock>>
  /\ UNCHANGED <<pipelineVars, componentVars, storageVars, boundaryVars>>

\* the component unmounts: React runs the cleanup of the effect
UnmountStats ==
  /\ statsMounted
  /\ statsMounted' = FALSE
  /\ timers' = clearTimeout(timers, instance)
  /\ UNCHANGED <<instance, loading, clock>>
  /\ UNCHANGED <<pipelineVars, componentVars, storageVars, boundaryVars>>

TickStats ==
  /\ clock + kTick <= MaxClock
  /\ \A i \in DOMAIN timers : timers[i].due > clock
  /\ clock' = clock + kTick
  /\ UNCHANGED <<statsMounted, instance, loading, timers>>
  /\ UNCHANGED <<pipelineVars, componentVars, storageVars, boundaryVars>>

InitStats ==
  /\ StatsUnused
  /\ PipelineUnused
  /\ ComponentUnmounted
  /\ StorageUntouched
  /\ BoundaryUnused

NextStats ==
  MountStats \/ RefreshData \/ TimerFires \/ UnmountStats \/ TickStats

SpecStats == InitStats /\ [][NextStats]_vars

----------------------------------------------------------------------------
(* What the properties speak of.  A tag of a string is a match of          *)
(* tagPattern: '<', an optional '/', a name, optional attributes after     *)
(* white space, '>'.  This is the narrowest reading: what a browser takes  *)
(* for a tag includes it.                                                  *)

IsTag(o, k) == tagPatternEnd(o, k) > 0
IsOpeningTag(o, k) == IsTag(o, k) /\ CharAt(o, k + 1) # "/"
IsClosingTag(o, k) == IsTag(o, k) /\ CharAt(o, k + 1) = "/"
TagNameIs(o, k, name) == toLowerCase(tagName(o, k)) = name

\* an opening <script ...> tag and, after it, a closing </script> tag
HasScriptBlock(o) ==
  \E k \in 1..Len(o) : \E p \in k + 1..Len(o) :
    /\ IsOpeningTag(o, k) /\ TagNameIs(o, k, Chars("script"))
    /\ IsClosingTag(o, p) /\ TagNameIs(o, p, Chars("script"))

HasScriptTag(o) ==
  \E k \in 1..Len(o) : IsOpeningTag(o, k) /\ TagNameIs(o, k, Chars("script"))

HasEmbedTag(o) ==
  \E k \in 1..Len(o) :
    IsOpeningTag(o, k) /\ toLowerCase(tagName(o, k)) \in embedNames

\* on<word>= at position q, after white space, a '/' or a quote
IsHandlerAt(o, q) ==
  /\ CharAt(o, q - 1) \in SpaceChars \cup Quotes \cup {"/"}
  /\ LitAtCI(o, q, kOn)
  /\ LET w == SkipClass(o, q + 2, WordChars)
     IN w > q + 2 /\ CharAt(o, SkipClass(o, w, SpaceChars)) = "="

\* a tag of o that carries an on<word>= attribute
HasHandlerAttribute(o) ==
  \E k \in 1..Len(o) :
    IsTag(o, k) /\ \E q \in k + 1..tagPatternEnd(o, k) - 1 : IsHandlerAt(o, q)

\* a quoted href or src value that begins with data:
HasDataUri(o) == Contains(o, hrefDataEnd) \/ Contains(o, srcDataEnd)

\* href = and an opening quote followed by javascript:
hrefJavascriptOpen(o, i) ==
  IF LitAtCI(o, i, kHref)
  THEN LET a == SkipClass(o, i + 4, SpaceChars)
           b == SkipClass(o, a + 1, SpaceChars)
       IN IF /\ CharAt(o, a) = "="
             /\ CharAt(o, b) \in Quotes
             /\ LitAtCI(o, b + 1, kJavascript)
          THEN b + 1 ELSE 0
  ELSE 0

HasJavascriptHref(o) == Contains(o, hrefJavascriptOpen)

HasScriptVector(o) ==
  \/ HasScriptTag(o)
  \/ HasHandlerAttribute(o)
  \/ Contains(o, hrefJavascriptEnd)
  \/ HasDataUri(o)
  \/ HasEmbedTag(o)

HasSubstring(o, lit) == \E k \in 1..Len(o) : LitAt(o, k, lit)

\* content is one markdown link whose url begins with javascript:
IsJavascriptLink(c) ==
  /\ Len(c) > 0
  /\ linkEnd(c, 1) = Len(c) + 1
  /\ LitAtCI(linkUrl(c, 1, Len(c) + 1), 1, kJavascript)

----------------------------------------------------------------------------
(* C1: whatever the markdown input, the string the pipeline                *)
(* sanitizeHTML(parseMarkdown(input)) returns holds no script vector: no   *)
(* script tag, no on<word>= attribute, no quoted javascript: or data: URI  *)
(* in an href or src, no iframe, object or embed tag.                      *)
C1_PipelineHasNoScriptVector ==
  phase = "rendered" => ~HasScriptVector(injected)

(* C2: sanitizeHTML is idempotent: sanitizing its own output changes       *)
(* nothing.                                                                *)
C2_SanitizeIdempotent ==
  phase = "sanitized" => sanitizeHTML(html) = html

(* C3: every tag in the output of sanitizeHTML, opening or closing, in any *)
(* letter case, has a name on the allow-list.                              *)
C3_AllowListClosure ==
  phase = "sanitized" =>
    \A k \in 1..Len(html) :
      IsTag(html, k) => toLowerCase(tagName(html, k)) \in allowedTags

(* C4: the output of sanitizeHTML holds no script block, an opening        *)
(* script tag followed later by a closing one.                             *)
C4_NoScriptBlock ==
  phase = "sanitized" => ~HasScriptBlock(html)

(* C5: no on<word>=value attribute is left on any tag of the output of     *)
(* sanitizeHTML, whatever precedes the attribute name.                     *)
C5_NoHandlerAttribute ==
  phase = "sanitized" => ~HasHandlerAttribute(html)

(* C6: an href whose quoted value begins with javascript: does not get     *)
(* through sanitizeHTML (it becomes href="#"), and a markdown link whose   *)
(* url begins with javascript: is rendered as an anchor with href="#".     *)
C6_JavascriptHrefRewritten ==
  /\ (phase = "sanitized" /\ Contains(content, hrefJavascriptEnd))
       => ~HasJavascriptHref(html)
  /\ (phase = "rendered" /\ IsJavascriptLink(content))
       => /\ HasSubstring(injected, Chars("<a href=\"#\""))
          /\ ~HasJavascriptHref(injected)

(* C7: no quoted href or src value that begins with data: is left in the   *)
(* output of sanitizeHTML.                                                 *)
C7_NoDataUri ==
  phase = "sanitized" => ~HasDataUri(html)

(* C8: the output of sanitizeHTML holds no opening iframe, object or embed *)
(* tag.                                                                    *)
C8_NoEmbedTag ==
  phase = "sanitized" => ~HasEmbedTag(html)

----------------------------------------------------------------------------
(* The allow-list step, said without the replace loop: the tag tokens of h *)
(* from left to right, none starting inside the one before it, and h       *)
(* without the characters of a set of positions.                           *)

TagTokens(h) ==
  LET n == Len(h)
      from[i \in 1..n + 1] ==
        IF i > n THEN {}
        ELSE IF IsTag(h, i) THEN {i} \cup from[tagPatternEnd(h, i)]
        ELSE from[i + 1]
  IN from[1]

\* the positions of the tag tokens of h whose name is not on the allow-list
DisallowedPositions(h) ==
  UNION {k..tagPatternEnd(h, k) - 1 :
           k \in {t \in TagTokens(h) : toLowerCase(tagName(h, t)) \notin allowedTags}}

\* h without the characters at the positions D, the others in their order
Without(h, D) ==
  LET pick[i \in 0..Len(h)] ==
        IF i = 0 THEN <<>>
        ELSE IF i \in D THEN pick[i - 1] ELSE Append(pick[i - 1], h[i])
  IN pick[Len(h)]

OnlyUnwraps(h) == filterTags(h) = Without(h, DisallowedPositions(h))

(* C9: the allow-list step of sanitizeHTML deletes exactly the tag tokens  *)
(* whose name is not on the allow-list and leaves every other character    *)
(* of its input, the text and the allowed tags with their attributes, as   *)
(* it is and in the same order.  Checked on what sanitizeHTML hands to the *)
(* step and on the raw input.                                              *)
C9_FilterOnlyUnwraps ==
  phase = "sanitized" =>
    /\ html = Without(beforeFilter(content), DisallowedPositions(beforeFilter(content)))
    /\ OnlyUnwraps(content)

\* the step has deleted a tag and kept an allowed tag with its attributes
\* and text outside the tags
C9_Witness ==
  /\ phase = "sanitized"
  /\ content = Chars("<p class=\"k\">a < b</div >")
  /\ html = Chars("<p class=\"k\">a < b")

(* C10: what a MarkdownRenderer component hands to dangerouslySetInnerHTML *)
(* is sanitizeHTML(parseMarkdown(content)), in both components.            *)
C10_InjectedIsSanitized ==
  phase \in {"rendered", "renderedUnsanitized"} =>
    injected = sanitizeHTML(parseMarkdown(content))

----------------------------------------------------------------------------
(* What the properties of the parser speak of: occurrences, lines, runs    *)
(* of asterisks.                                                           *)

\* how many times lit occurs in s
Count(s, lit) == Cardinality({k \in 1..Len(s) : LitAt(s, k, lit)})

\* the lengths of the maximal runs of '*' of c, from position i on
RECURSIVE StarRunsFrom(_, _)
StarRunsFrom(c, i) ==
  IF i > Len(c) THEN <<>>
  ELSE IF c[i] = "*"
       THEN LET j == SkipClass(c, i, {"*"})
            IN <<j - i>> \o StarRunsFrom(c, j)
       ELSE StarRunsFrom(c, SkipUntil(c, i, {"*"}))

StarRuns(c) == StarRunsFrom(c, 1)

\* the delimiters left open when each run closes the nearest open run of
\* its own length
RECURSIVE Unmatched(_, _)
Unmatched(r, open) ==
  IF r = <<>> THEN open
  ELSE IF open # <<>> /\ open[Len(open)] = Head(r)
       THEN Unmatched(Tail(r), SubSeq(open, 1, Len(open) - 1))
       ELSE Unmatched(Tail(r), Append(open, Head(r)))

\* every asterisk of c belongs to a ** ... ** or a * ... * pair
PairedEmphasis(c) ==
  LET r == StarRuns(c) IN
  /\ \A i \in 1..Len(r) : r[i] \in {1, 2}
  /\ Unmatched(r, <<>>) = <<>>

\* the pairs of c whose delimiter is n asterisks long
EmphasisPairs(c, n) ==
  LET r == StarRuns(c) IN Cardinality({i \in 1..Len(r) : r[i] = n}) \div 2

(* C12: bold has precedence over italic.  When the asterisks of the input  *)
(* form ** ... ** and * ... * pairs, every ** pair has become a <strong>   *)
(* span, every * pair an <em> span, and no asterisk is left in the output  *)
(* of parseMarkdown.                                                       *)
C12_BoldBeforeItalic ==
  phase = "rendered" /\ PairedEmphasis(content) =>
    /\ "*" \notin Range(parsed)
    /\ Count(parsed, Chars("<strong ")) = EmphasisPairs(content, 2)
    /\ Count(parsed, Chars("<em ")) = EmphasisPairs(content, 1)

\* the lines of c: what stands between its line breaks
RECURSIVE LinesFrom(_, _)
LinesFrom(c, i) ==
  LET e == SkipUntil(c, i, LineTerminators) IN
  IF e > Len(c) THEN <<SubSeq(c, i, Len(c))>>
  ELSE <<SubSeq(c, i, e - 1)>> \o LinesFrom(c, e + 1)

Lines(c) == LinesFrom(c, 1)

\* the number of '#' a line begins with
HashCount(l) == SkipClass(l, 1, {"#"}) - 1

\* a header line: one to three '#', then a space; its text is what follows
HeaderLevel(l) ==
  LET n == HashCount(l) IN
  IF n \in 1..3 /\ CharAt(l, n + 1) = " " THEN n ELSE 0

HeaderText(l) == SubSeq(l, HeaderLevel(l) + 2, Len(l))

\* a line beginning with ###, ## or #, the longest first, whatever follows
HashLevel(l) ==
  IF LitAt(l, 1, Chars("###")) THEN 3
  ELSE IF LitAt(l, 1, Chars("##")) THEN 2
  ELSE IF LitAt(l, 1, Chars("#")) THEN 1
  ELSE 0

\* its text: the line without those '#' and without one space after them
HashText(l) ==
  LET n == HashLevel(l) IN
  SubSeq(l, IF CharAt(l, n + 1) = " " THEN n + 2 ELSE n + 1, Len(l))

HeadingName(n) == Chars("h") \o <<Chars("123")[n]>>

\* the opening tag of a heading of level n, up to its class attribute
HeadingOpen(n) == Chars("<") \o HeadingName(n) \o Chars(" ")

HeadingClose(n) == Chars("</") \o HeadingName(n) \o Chars(">")

\* o holds an element of level n whose content is t
HeadingWith(o, n, t) ==
  \E k \in 1..Len(o) :
    /\ LitAt(o, k, HeadingOpen(n))
    /\ LitAt(o, SkipUntil(o, k, {">"}) + 1, t \o HeadingClose(n))

\* text that no rule of the parser rewrites
IsLiteralText(t) == Range(t) \cap {"*", Backquote, "[", "<", "\n"} = {}

\* the lines of c that Level takes for a header have become the headings
\* of o, and o has no other heading
HeadingsAre(c, o, Level(_), Text(_)) ==
  LET ls == Lines(c) IN
  /\ \A n \in 1..3 :
       Count(o, HeadingOpen(n))
         = Cardinality({i \in DOMAIN ls : Level(ls[i]) = n})
  /\ \A i \in DOMAIN ls :
       Level(ls[i]) > 0 /\ IsLiteralText(Text(ls[i]))
         => HeadingWith(o, Level(ls[i]), Text(ls[i]))

(* C13 as stated: in parseMarkdown every line beginning with ###, ## or #  *)
(* (the longest prefix first) becomes an <h3>, <h2> or <h1> element whose  *)
(* text is the rest of the line without the leading #s and one space.      *)
C13_HashLinesBecomeHeadings ==
  phase = "rendered" /\ ~HasSubstring(content, Chars("<h")) =>
    HeadingsAre(content, parsed, HashLevel, HashText)

(* C13, amended: in parseMarkdown every line beginning with one to three   *)
(* '#' followed by a space becomes the <h1>, <h2> or <h3> element of that  *)
(* many '#', whose text is the rest of the line after the space; the       *)
(* lines of a multi-line input are matched one by one, and no other line   *)
(* becomes a heading.                                                      *)
C13_HeaderLinesBecomeHeadings ==
  phase = "rendered" /\ ~HasSubstring(content, Chars("<h")) =>
    HeadingsAre(content, parsed, HeaderLevel, HeaderText)

C13_Witness ==
  /\ phase = "rendered"
  /\ content = Chars("### Deep\n#tag")
  /\ HeadingWith(parsed, 3, Chars("Deep"))
  /\ HasSubstring(parsed, Chars("<br>#tag"))

\* the text and the url of c read as one markdown link [text](url)
LinkTextOf(c) == SubSeq(c, 2, SkipUntil(c, 2, {"]"}) - 1)
LinkUrlOf(c) == SubSeq(c, SkipUntil(c, 2, {"]"}) + 2, Len(c) - 1)

\* c is one markdown link: a text free of ']' and a url free of ')'
IsMarkdownLink(c) ==
  /\ CharAt(c, 1) = "["
  /\ LinkTextOf(c) # <<>>
  /\ LitAt(c, SkipUntil(c, 2, {"]"}), Chars("]("))
  /\ LinkUrlOf(c) # <<>>
  /\ ")" \notin Range(LinkUrlOf(c))
  /\ CharAt(c, Len(c)) = ")"

kTargetBlank == Chars("target=\"_blank\"")
kRelNoopener == Chars("rel=\"noopener noreferrer\"")

\* where the tag that is open at i ends: its first '>' outside a quoted
\* attribute value, 0 when the tag does not end
RECURSIVE TagCloseFrom(_, _)
TagCloseFrom(o, i) ==
  LET j == SkipUntil(o, i, Quotes \cup {">"}) IN
  IF j > Len(o) THEN 0
  ELSE IF o[j] = ">" THEN j
  ELSE LET c == SkipUntil(o, j + 1, {o[j]}) IN
       IF c > Len(o) THEN 0 ELSE TagCloseFrom(o, c + 1)

\* o holds the opening tag of an anchor that carries both attributes
HasSafeAnchor(o) ==
  \E k \in 1..Len(o) :
    /\ LitAt(o, k, Chars("<a "))
    /\ LET e == TagCloseFrom(o, k) IN
       /\ e > 0
       /\ HasSubstring(SubSeq(o, k, e), kTargetBlank)
       /\ HasSubstring(SubSeq(o, k, e), kRelNoopener)

(* C14: for a markdown link [text](url), text free of ']' and url free of  *)
(* ')', parseMarkdown emits <a href="url" ... target="_blank"              *)
(* rel="noopener noreferrer">text</a>, and the anchor still carries        *)
(* target="_blank" and rel="noopener noreferrer" after sanitizeHTML.       *)
C14_LinkKeepsTargetAndRel ==
  phase = "rendered" /\ IsMarkdownLink(content) =>
    /\ HasSubstring(parsed,
         Chars("<a href=\"") \o LinkUrlOf(content) \o Chars("\" "))
    /\ HasSubstring(parsed,
         Chars(" ") \o kTargetBlank \o Chars(" ") \o kRelNoopener
           \o Chars(">") \o LinkTextOf(content) \o Chars("</a>"))
    /\ HasSafeAnchor(injected)

\* a list-item line, and a line with nothing on it
IsItemLine(l) == LitAt(l, 1, Chars("- "))
IsBlankLine(l) == Range(l) \subseteq SpaceChars

\* the sizes of the runs of list-item lines of ls from line i on, n items
\* of the current run being counted already: a run ends at a line that has
\* content and is no list item
RECURSIVE ItemRunsFrom(_, _, _)
ItemRunsFrom(ls, i, n) ==
  LET run == IF n > 0 THEN <<n>> ELSE <<>> IN
  IF i > Len(ls) THEN run
  ELSE IF IsItemLine(ls[i]) THEN ItemRunsFrom(ls, i + 1, n + 1)
  ELSE IF IsBlankLine(ls[i]) THEN ItemRunsFrom(ls, i + 1, n)
  ELSE run \o ItemRunsFrom(ls, i + 1, 0)

ItemRuns(c) == ItemRunsFrom(Lines(c), 1, 0)

ItemLines(c) ==
  LET ls == Lines(c) IN Cardinality({i \in DOMAIN ls : IsItemLine(ls[i])})

kUlOpen == Chars("<ul ")
kUlClose == Chars("</ul>")

\* for every <ul> of o from position i on, the number of <li> in it
RECURSIVE ListSizesFrom(_, _)
ListSizesFrom(o, i) ==
  LET opens == {k \in i..Len(o) : LitAt(o, k, kUlOpen)} IN
  IF opens = {} THEN <<>>
  ELSE LET k == Min(opens)
           closes == {e \in k..Len(o) : LitAt(o, e, kUlClose)}
           e == IF closes = {} THEN Len(o) + 1 ELSE Min(closes)
       IN <<Cardinality({j \in k..e : LitAt(o, j, Chars("<li "))})>>
            \o ListSizesFrom(o, e + 1)

ListSizes(o) == ListSizesFrom(o, 1)

\* c brings no list markup of its own
NoListMarkup(c) ==
  /\ ~HasSubstring(c, Chars("<li"))
  /\ ~HasSubstring(c, Chars("<ul"))
  /\ ~HasSubstring(c, kUlClose)

(* C15: list grouping in parseMarkdown.  Every line of the form '- item'   *)
(* has become one <li>; every maximal run of consecutive list-item lines   *)
(* (lines with nothing on them do not end a run) is wrapped in exactly one *)
(* <ul>, which holds the <li> of that run and no other; runs separated by  *)
(* a line of other content have separate <ul>.                             *)
C15_ListGrouping ==
  phase = "rendered" /\ NoListMarkup(content) =>
    /\ Count(parsed, Chars("<li ")) = ItemLines(content)
    /\ ListSizes(parsed) = ItemRuns(content)
    /\ Count(parsed, kUlClose) = Len(ItemRuns(content))

C15_Witness ==
  /\ phase = "rendered"
  /\ content = Chars("- a\n- b\n- c")
  /\ ListSizes(parsed) = <<3>>
  /\ Count(parsed, kUlOpen) = 1

\* text without markdown syntax: no emphasis, code or link character, no
\* header line, no list-item line, no paragraph break
NoMarkdownSyntax(c) ==
  LET ls == Lines(c) IN
  /\ Range(c) \cap {"*", Backquote, "[", "]"} = {}
  /\ \A i \in DOMAIN ls : HeaderLevel(ls[i]) = 0 /\ ~IsItemLine(ls[i])
  /\ ~HasSubstring(c, kBlankLine)

\* the strings of ls with sep between them
RECURSIVE JoinWith(_, _)
JoinWith(ls, sep) ==
  IF Len(ls) = 1 THEN ls[1] ELSE ls[1] \o sep \o JoinWith(Tail(ls), sep)

(* C16: for text with no markdown syntax parseMarkdown returns one         *)
(* paragraph, wrapped once, whose content is the text with its line breaks *)
(* turned into <br>: <p class="text-muted-foreground mb-4">hello world</p> *)
(* for "hello world", the empty wrapper for the empty string.              *)
C16_PlainTextIsOneParagraph ==
  phase = "rendered" /\ NoMarkdownSyntax(content) =>
    parsed = kParagraphOpen \o JoinWith(Lines(content), Chars("<br>"))
               \o kParagraphClose

----------------------------------------------------------------------------
(* C17: MarkdownRenderer runs the parse+sanitize pipeline exactly when the *)
(* content prop changes.  In every step the pipeline has run once if the   *)
(* step is the first render of an instance or a render with another        *)
(* content than the last, and not at all otherwise (a render in which only *)
(* className changed, or nothing, reuses the memoized HTML); and after     *)
(* every render the HTML in the element is                                 *)
(* sanitizeHTML(parseMarkdown(c)) for the content c of that render, never  *)
(* for an earlier one.                                                     *)
C17_MemoFollowsContent ==
  [][/\ dom'.mounted =>
         dom'.html = sanitizeHTML(parseMarkdown(props'.content))
     /\ runs' = IF /\ renders' # renders
                  /\ (~dom.mounted \/ props'.content # props.content)
               THEN runs + 1
               ELSE runs]_vars

C17_Witness ==
  /\ dom.mounted
  /\ renders = 3
  /\ runs = 2
  /\ props = [content |-> Chars("**bold** text"), className |-> "compact"]
  /\ dom.className = cn("compact")
  /\ HasSubstring(dom.html, Chars("<strong "))

----------------------------------------------------------------------------
(* Expiry of stored items and failures of localStorage *)

\* at time t the item w is within its time to live, or has none
Fresh(w, t) == w.ttl = None \/ t <= w.createdAt + w.ttl[1]

\* at time t the item w is past the expiresAt stored with it
Stale(w, t) == w.expiresAt # None /\ t > w.expiresAt[1]

\* a read of key, none of whose localStorage calls throws, of the item
\* written last: returned while fresh; once stale, the default or null
\* (false from hasItem) and the key is gone
ExpiryHolds(key) ==
  WrittenUnder(key) =>
    LET w == written[1] IN
    /\ \A d \in Defaults :
         GetItemCall(key, d, 0) =>
           /\ Fresh(w, now) => returned' = w.value
           /\ Stale(w, now) =>
                returned' = DefaultOrNull(d) /\ key \notin DOMAIN localStorage'
    /\ HasItemCall(key, 0) =>
         /\ Fresh(w, now) => returned' = JSBoolean(TRUE)
         /\ Stale(w, now) =>
              returned' = JSBoolean(FALSE) /\ key \notin DOMAIN localStorage'

(* C18: an item written with setItem(key, value, {ttl}) is returned by     *)
(* getItem and reported by hasItem as long as the time is not past         *)
(* createdAt + ttl; once the time is past expiresAt, getItem returns the   *)
(* default value or null, hasItem returns false and the read removes the   *)
(* key; an item written without a ttl never expires.                       *)
C18_StorageExpiry == [][\A key \in StorageKeys : ExpiryHolds(key)]_vars

\* the call returns v and leaves the stored contents as they were
FailsWith(v) == returned' = v /\ localStorage' = localStorage

(* C19: when localStorage is unavailable or one of its calls throws, every *)
(* helper returns its failure value (getItem the default or null; setItem, *)
(* removeItem, clear and hasItem false; getKeys []; getSize and            *)
(* cleanupExpired 0) and the stored contents are left unchanged.           *)
C19_FailureLeavesStorage ==
  [][\A f \in 1..MaxFault :
       /\ \A key \in StorageKeys :
            /\ \A d \in Defaults :
                 /\ GetItemCall(key, d, f)
                 /\ Threw(getItem(key, d, localStorage, now, f), f)
                 => FailsWith(DefaultOrNull(d))
            /\ \A value \in StoredValues, options \in StorageOptions,
                  t2 \in {now, now + 1} :
                 /\ SetItemCall(key, value, options, t2, f)
                 /\ Threw(setItem(key, value, options, localStorage, now,
                                  t2, f), f)
                 => FailsWith(JSBoolean(FALSE))
            /\ /\ RemoveItemCall(key, f)
               /\ Threw(removeItem(key, localStorage, f), f)
               => FailsWith(JSBoolean(FALSE))
            /\ /\ HasItemCall(key, f)
               /\ Threw(hasItem(key, localStorage, now, f), f)
               => FailsWith(JSBoolean(FALSE))
       /\ ClearCall(f) /\ Threw(clear(localStorage, f), f)
          => FailsWith(JSBoolean(FALSE))
       /\ \A prefix \in Prefixes :
            GetKeysCall(prefix, f) /\ Threw(getKeys(prefix, localStorage, f), f)
            => FailsWith(JSArray(<<>>))
       /\ GetSizeCall(f) /\ Threw(getSize(localStorage, f), f)
          => FailsWith(JSNumber(0))
       /\ CleanupExpiredCall(f) /\ Threw(cleanupExpired(localStorage, now, f), f)
          => FailsWith(JSNumber(0))]_vars

----------------------------------------------------------------------------
(* The error boundary *)

\* what the boundary should show: the fallback UI (the fallback prop when
\* given, otherwise the default card) when an error was caught since the
\* last reset, its children otherwise
ExpectedRender ==
  IF caughtSinceReset
  THEN IF boundaryProps.fallback # Undefined THEN boundaryProps.fallback
       ELSE kDefaultCard
  ELSE kChildren

(* C20: after any sequence of child render errors and handleReset calls    *)
(* the boundary renders the fallback UI (the custom fallback prop when     *)
(* given, otherwise the default error card) exactly when an error has been *)
(* caught since the last reset, and its children otherwise; handleReset    *)
(* restores the state hasError=false, error=null, errorInfo=null; onError  *)
(* is called once for each caught error.                                   *)
C20_BoundaryShowsFallback ==
  /\ rendered = ExpectedRender
  /\ ~caughtSinceReset => state = kInitialState
  /\ (pendingCatch = None /\ boundaryProps.onError)
       => Len(onErrorCalls) = caught

----------------------------------------------------------------------------
(* The attributes of a tag.  t is the text of a tag; a name runs up to     *)
(* white space, '=', '/' or '>', a value is quoted or runs up to white     *)
(* space or '>'.                                                           *)

RECURSIVE AttributeNamesFrom(_, _)
AttributeNamesFrom(t, i) ==
  LET a == SkipClass(t, i, SpaceChars \cup {"/"})
      b == SkipUntil(t, a, SpaceChars \cup {"=", ">", "/"})
      c == SkipClass(t, b, SpaceChars)
      v == SkipClass(t, c + 1, SpaceChars)
      w == IF CharAt(t, v) \in Quotes
           THEN SkipUntil(t, v + 1, {t[v]}) + 1
           ELSE SkipUntil(t, v, SpaceChars \cup {">"})
  IN IF a > Len(t) \/ t[a] = ">" THEN {}
     ELSE IF b = a THEN AttributeNamesFrom(t, a + 1)
     ELSE {toLowerCase(SubSeq(t, a, b - 1))}
          \cup AttributeNamesFrom(t, IF CharAt(t, c) = "=" THEN w ELSE b)

\* the names of the attributes of the tag of o at k
AttributeNames(o, k) ==
  AttributeNamesFrom(SubSeq(o, k, tagPatternEnd(o, k) - 1),
                     SkipClass(o, tagNameStart(o, k), WordChars) - k + 1)

\* the attributes parseMarkdown writes and the ones a rule of sanitizeHTML
\* rewrites
SafeAttributeNames ==
  {Chars("class"), Chars("href"), Chars("src"), Chars("target"), Chars("rel")}

(* C21: sanitizeHTML whitelists attributes as well as tags: every          *)
(* attribute of every tag of its output is a safe one; an attribute no     *)
(* rule names, such as style=..., and an unquoted href=javascript:... do   *)
(* not survive.                                                            *)
C21_AttributeAllowList ==
  phase = "sanitized" =>
    /\ \A k \in 1..Len(html) :
         IsTag(html, k) => AttributeNames(html, k) \subseteq SafeAttributeNames
    /\ ~HasSubstring(toLowerCase(html), Chars("href=javascript:"))

----------------------------------------------------------------------------
(* Paragraphs and line breaks *)

kNewline == Chars("\n")
kBreak == Chars("<br>")
kParagraphBoundary == kParagraphClose \o kParagraphOpen

\* the double newlines of c from position i on, counted from left to right,
\* none sharing a newline with another
RECURSIVE DoubleNewlinesFrom(_, _)
DoubleNewlinesFrom(c, i) ==
  IF i >= Len(c) THEN 0
  ELSE IF c[i] = "\n" /\ c[i + 1] = "\n" THEN 1 + DoubleNewlinesFrom(c, i + 2)
  ELSE DoubleNewlinesFrom(c, i + 1)

DoubleNewlines(c) == DoubleNewlinesFrom(c, 1)

(* C22: in parseMarkdown every double newline becomes a paragraph boundary *)
(* </p><p class="text-muted-foreground mb-4"> and every remaining single   *)
(* newline becomes <br>, so the output holds no newline character.         *)
C22_NoNewlineLeft ==
  phase \in {"rendered", "renderedUnsanitized"} =>
    /\ ~HasSubstring(parsed, kNewline)
    /\ Count(parsed, kParagraphBoundary) = DoubleNewlines(content)
    /\ Count(parsed, kBreak)
         = Count(content, kNewline) - 2 * DoubleNewlines(content)

\* a double newline and a single one
C22_Witness ==
  /\ phase = "rendered"
  /\ content = Chars("text\n\n \n")
  /\ parsed = kParagraphOpen \o Chars("text") \o kParagraphBoundary
                \o Chars(" <br>") \o kParagraphClose

\* where a paragraph opens and where one closes in o
ParagraphOpens(o) ==
  {k \in 1..Len(o) : LitAt(o, k, Chars("<p ")) \/ LitAt(o, k, Chars("<p>"))}
ParagraphCloses(o) == {k \in 1..Len(o) : LitAt(o, k, kParagraphClose)}

\* up to every position no more paragraphs are closed than opened, and at
\* the end none is open
ParagraphsBalanced(o) ==
  /\ \A k \in 1..Len(o) :
       Cardinality({c \in ParagraphCloses(o) : c <= k})
         <= Cardinality({p \in ParagraphOpens(o) : p <= k})
  /\ Cardinality(ParagraphOpens(o)) = Cardinality(ParagraphCloses(o))

(* C23: in the output of parseMarkdown every </p> is preceded by a         *)
(* matching unclosed <p ...> and every <p ...> is followed by a matching   *)
(* </p>, for every input, also one that starts with a heading or a list.   *)
C23_ParagraphsBalanced ==
  phase \in {"rendered", "renderedUnsanitized"} => ParagraphsBalanced(parsed)

----------------------------------------------------------------------------
(* The final wrap *)

\* the text parseMarkdown has before its final wrap
transformed(text) ==
  parseBreaks(parseLists(parseLinks(parseHeaders(parseInline(text)))))

BlockTagNames ==
  {Chars("h1"), Chars("h2"), Chars("h3"), Chars("ul"), Chars("p")}

\* t starts with a heading tag, a list tag or a paragraph tag
StartsWithBlockTag(t) ==
  IsOpeningTag(t, 1) /\ toLowerCase(tagName(t, 1)) \in BlockTagNames

(* C24: the transformed text is wrapped in exactly one                     *)
(* <p class="text-muted-foreground mb-4">...</p> if and only if it does    *)
(* not already start with a heading tag (h1-h3), a list tag (ul) or a      *)
(* paragraph tag (p); otherwise it is returned as it is.                   *)
C24_FinalWrap ==
  phase \in {"rendered", "renderedUnsanitized"} =>
    parsed = IF StartsWithBlockTag(transformed(content))
             THEN transformed(content)
             ELSE kParagraphOpen \o transformed(content) \o kParagraphClose

----------------------------------------------------------------------------
(* Malformed markdown *)

\* text whose only markdown is what cannot be paired or completed: at most
\* one run of one or two asterisks, at most one backquote, no "](" ; and no
\* angle bracket, header line, list-item line or paragraph break
OnlyMalformedTokens(c) ==
  LET ls == Lines(c) IN
  /\ Len(StarRuns(c)) <= 1
  /\ \A i \in DOMAIN StarRuns(c) : StarRuns(c)[i] <= 2
  /\ Count(c, <<Backquote>>) <= 1
  /\ ~HasSubstring(c, Chars("]("))
  /\ Range(c) \cap {"<", ">"} = {}
  /\ \A i \in DOMAIN ls : HeaderLevel(ls[i]) = 0 /\ ~IsItemLine(ls[i])
  /\ ~HasSubstring(c, kBlankLine)

HasMalformedToken(c) == Range(c) \cap {"*", Backquote, "[", "]"} # {}

(* C25: an unmatched or partial token (a single stray '*', an unclosed     *)
(* '**', an unclosed backtick, a '[text]' without '(url)') is left in the  *)
(* output of parseMarkdown as the same literal characters, produces no     *)
(* <em>, <strong>, <code> or <a> element, and the text is still wrapped in *)
(* a paragraph.                                                            *)
C25_MalformedStaysLiteral ==
  (/\ phase \in {"rendered", "renderedUnsanitized"}
   /\ OnlyMalformedTokens(content)
   /\ HasMalformedToken(content))
  => /\ parsed = kParagraphOpen \o JoinWith(Lines(content), kBreak)
                   \o kParagraphClose
     /\ \A el \in {Chars("<em"), Chars("<strong"), Chars("<code"), Chars("<a ")} :
          ~HasSubstring(parsed, el)

\* an unclosed '**' and a '[text]' without its '(url)'
C25_Witness ==
  /\ phase = "rendered"
  /\ content = Chars("**plain [text]")
  /\ parsed = kParagraphOpen \o Chars("**plain [text]") \o kParagraphClose

----------------------------------------------------------------------------
(* C26: for every markdown input that contains no '<' and no '>'           *)
(* sanitizeHTML(parseMarkdown(input)) equals parseMarkdown(input): the     *)
(* sanitizer removes or rewrites nothing of the markup the parser wrote or *)
(* of the user's text.                                                     *)
C26_SanitizerKeepsMarkdown ==
  (phase = "rendered" /\ Range(content) \cap {"<", ">"} = {})
    => injected = parsed

----------------------------------------------------------------------------
(* Embedding elements, read off the text itself: a '<', an optional '/',   *)
(* one of the names iframe, object, embed in any letter case, and          *)
(* everything up to the next '>'.                                          *)

EmbedTagAt(c, k) ==
  /\ CharAt(c, k) = "<"
  /\ \E nm \in embedNames :
       LET j == IF CharAt(c, k + 1) = "/" THEN k + 2 ELSE k + 1
       IN LitAtCI(c, j, nm) /\ CharAt(c, j + Len(nm)) \in {" ", ">"}
  /\ SkipUntil(c, k, {">"}) <= Len(c)

\* every '<' of c opens an embedding tag, opening or closing
EmbedTagsOnly(c) == \A k \in 1..Len(c) : c[k] = "<" => EmbedTagAt(c, k)

EmbedTagPositions(c) ==
  UNION {k..SkipUntil(c, k, {">"}) : k \in {t \in 1..Len(c) : EmbedTagAt(c, t)}}

HasClosingEmbedTag(c) ==
  \E nm \in embedNames : HasSubstring(toLowerCase(c), Chars("</") \o nm)

\* the text of c outside its embedding tags
TextOutsideEmbedTags(c) == Without(c, EmbedTagPositions(c))

(* C27: of an iframe, object or embed element sanitizeHTML removes the     *)
(* opening tag and the closing tag, in any letter case, and keeps the text *)
(* that stood between them in place: for HTML whose only tags are such     *)
(* tags and whose text holds no attribute assignment, the output is the    *)
(* text outside the tags.                                                  *)
C27_EmbedElementUnwrapped ==
  (/\ phase = "sanitized"
   /\ EmbedTagsOnly(content)
   /\ "=" \notin Range(TextOutsideEmbedTags(content))) =>
    /\ html = Without(content, EmbedTagPositions(content))
    /\ ~HasClosingEmbedTag(html)

\* an iframe with text inside came out as the text alone
C27_Witness ==
  /\ phase = "sanitized"
  /\ content = Chars("<iframe src=\"x\">inner text</iframe>")
  /\ html = Chars("inner text")

----------------------------------------------------------------------------
\* out is no longer than in, and shorter when it is another string
Shrinks(in, out) ==
  /\ Len(out) <= Len(in)
  /\ out # in => Len(out) < Len(in)

\* at most n further applications of sanitizeHTML, each one shortening,
\* lead from h to a string that sanitizeHTML leaves as it is
RECURSIVE ShrinksToFixedPoint(_, _)
ShrinksToFixedPoint(h, n) ==
  LET s == sanitizeHTML(h)
  IN \/ s = h
     \/ /\ n > 0
        /\ Len(s) < Len(h)
        /\ ShrinksToFixedPoint(s, n - 1)

(* C28: sanitizeHTML never returns a longer string than it was given, and  *)
(* a string other than its input only if that string is shorter, on a      *)
(* first application and on every further one; so from what it returns at  *)
(* most as many further applications as the string has characters reach a  *)
(* string that it leaves unchanged.                                        *)
C28_SanitizeShrinks ==
  [][/\ Sanitize => Shrinks(content, html')
     /\ SanitizeAgain => (Shrinks(html, html') /\ ShrinksToFixedPoint(html', Len(html')))]_vars

\* a second application shortened the output of the first and reached a
\* string that a third leaves as it is
C28_Witness ==
  /\ phase = "resanitized"
  /\ Len(html) < Len(sanitizeHTML(content))
  /\ sanitizeHTML(html) = html

----------------------------------------------------------------------------
\* the header rules of parseMarkdown, each alone
ruleH3(t) == ReplaceAll(t, h3End, h3Rep)
ruleH2(t) == ReplaceAll(t, h2End, h2Rep)
ruleH1(t) == ReplaceAll(t, h1End, h1Rep)

\* what the three rules give in each of their six orders
HeaderOrders(t) ==
  {ruleH1(ruleH2(ruleH3(t))), ruleH2(ruleH1(ruleH3(t))),
   ruleH1(ruleH3(ruleH2(t))), ruleH3(ruleH1(ruleH2(t))),
   ruleH2(ruleH3(ruleH1(t))), ruleH3(ruleH2(ruleH1(t)))}

(* C29: the three header rules of parseMarkdown commute: applied in any of *)
(* their six orders, to the text as typed and to the text as the inline    *)
(* rules hand it on, they give what parseMarkdown's order gives.           *)
C29_HeaderRulesCommute ==
  phase = "rendered" =>
    /\ HeaderOrders(content) = {parseHeaders(content)}
    /\ HeaderOrders(parseInline(content)) = {parseHeaders(parseInline(content))}

\* a text with a ## line and a ### line, both turned into their headings
C29_Witness ==
  /\ phase = "rendered"
  /\ content = Chars("## Sub\n### Deep")
  /\ HasSubstring(parsed, Chars(">Sub</h2>"))
  /\ HasSubstring(parsed, Chars(">Deep</h3>"))

----------------------------------------------------------------------------
\* a timeout of refreshData of the mounted instance is set and not yet due
RefreshPending ==
  \E i \in DOMAIN timers :
    /\ timers[i].kind = "refresh"
    /\ timers[i].owner = instance
    /\ timers[i].due > clock

(* C30: in useStats loading stays true until 1000 ms after the most recent *)
(* refreshData call, whatever timeouts were pending when it was made: the  *)
(* mounted component is never not loading while a timeout of refreshData   *)
(* is pending, and no timeout of the hook runs its callback after the      *)
(* instance that set it has unmounted.                                     *)
C30_LoadingUntilLastRefresh ==
  [][/\ (statsMounted /\ RefreshPending)' => loading'
     /\ TimerFires => (statsMounted /\ Head(timers).owner = instance)]_vars

=============================================================================
